---- MODULE Spec2Model ----
(***************************************************************************)
(* Model of fono/build_db.py: the grapheme splitter, the syllable          *)
(* decomposer, the per-position counting pass and the feature table.       *)
(* A Python string is a sequence of one-character strings.                 *)
(***************************************************************************)
EXTENDS Integers, Sequences, FiniteSets, TLC

VARIABLES input, word, result, spc, iters, parsed,
          tokens, kons_counters, vocab_counters, idx, cpc,
          remaining, shards, shard_counts, merged, mpc,
          fit_descs, lines_read, applied, fpc

vars == <<input, word, result, spc, iters, parsed,
          tokens, kons_counters, vocab_counters, idx, cpc,
          remaining, shards, shard_counts, merged, mpc,
          fit_descs, lines_read, applied, fpc>>

textVars == <<input, word, result, spc, iters, parsed>>
countVars == <<tokens, kons_counters, vocab_counters, idx, cpc>>
shardVars == <<remaining, shards, shard_counts, merged, mpc>>
featVars == <<fit_descs, lines_read, applied, fpc>>

\* ---------------------------------------------------------------- bounds
MaxLen == 3
MaxSpin == 2
TextAlphabet == {"k", "h", "n", "g", "y", "s", "b", "a", "i", "u", "e", "o", "-"}

Strs(alphabet, n) == UNION {[1..k -> alphabet] : k \in 0..n}

\* ---------------------------------------------------------------- tables
cons ==
    << <<"k","h">>, <<"n","g">>, <<"n","y">>, <<"s","y">>,
       <<"b">>, <<"c">>, <<"d">>, <<"f">>, <<"g">>, <<"h">>, <<"j">>,
       <<"k">>, <<"l">>, <<"m">>, <<"n">>, <<"p">>, <<"q">>, <<"r">>,
       <<"s">>, <<"t">>, <<"v">>, <<"w">>, <<"x">>, <<"y">>, <<"z">> >>

vocabs ==
    << <<"a","i">>, <<"a","u">>, <<"e","i">>, <<"o","i">>,
       <<"a">>, <<"i">>, <<"u">>, <<"e">>, <<"o">> >>

Range(f) == {f[i] : i \in DOMAIN f}

is_vocal(c) == c \in Range(vocabs)

\* ------------------------------------------------------ regular expressions
\* Each pattern returns the length of its match at the given position of the
\* string, 0 when it does not match there.
ConsDigraphs == { <<"k","h">>, <<"n","g">>, <<"n","y">>, <<"s","y">> }
ConsSingles == {"b","c","d","f","g","h","j","k","l","m","n","p","q","r",
                "s","t","v","w","x","y","z"}
VowelDiphthongs == { <<"a","i">>, <<"a","u">>, <<"e","i">>, <<"o","i">> }
VowelSingles == {"a","i","u","e","o"}

\* '^(kh|ng|ny|sy|[bcdfghjklmnpqrstvwxyz])'
gab_kons_wide(w) ==
    IF Len(w) >= 2 /\ SubSeq(w, 1, 2) \in ConsDigraphs THEN 2
    ELSE IF Len(w) >= 1 /\ w[1] \in ConsSingles \cup {"a"} THEN 1
    ELSE 0

gab_kons(w) ==
    IF Len(w) >= 2 /\ SubSeq(w, 1, 2) \in ConsDigraphs THEN 2
    ELSE IF Len(w) >= 1 /\ w[1] \in ConsSingles THEN 1
    ELSE 0

\* '^[aiueo]'
v_pattern(w) == IF Len(w) >= 1 /\ w[1] \in VowelSingles THEN 1 ELSE 0

\* '(ai|au|ei|oi|[aiueo])' matched at position i of t (re.match at i)
re_vocab_at_mono(t, i) ==
    IF i <= Len(t) /\ t[i] \in VowelSingles THEN 1 ELSE 0

re_vocab_at(t, i) ==
    IF i + 1 <= Len(t) /\ SubSeq(t, i, i + 1) \in VowelDiphthongs THEN 2
    ELSE IF i <= Len(t) /\ t[i] \in VowelSingles THEN 1
    ELSE 0

\* re_vocab.search(t): the leftmost position with a match, as the span
\* <<start, end>> in Python's 0-based half-open convention; <<>> is None.
re_vocab_search(t) ==
    LET hits == {i \in 1..Len(t) : re_vocab_at(t, i) > 0}
    IN  IF hits = {} THEN <<>>
        ELSE LET i == CHOOSE j \in hits : \A k \in hits : j <= k
             IN  <<i - 1, i - 1 + re_vocab_at(t, i)>>

\* Python slices t[a:b] and t[a:] on 0-based offsets
Slice(t, a, b) == SubSeq(t, a + 1, b)
SliceFrom(t, a) == SubSeq(t, a + 1, Len(t))

\* ------------------------------------------------------------ parse_token
\* Parser.parse of fono.parser: the identity parser of the specification.
Parse(w) == <<w>>

RECURSIVE parse_tokens(_)
parse_tokens(toks) ==
    IF toks = <<>> THEN <<>>
    ELSE LET token == Head(toks)
             m == re_vocab_search(token)
         IN  IF m = <<>> THEN parse_tokens(Tail(toks))
             ELSE << [token |-> token,
                      nucleus |-> Slice(token, m[1], m[2]),
                      onset |-> Slice(token, 0, m[1]),
                      coda |-> SliceFrom(token, m[2])] >>
                  \o parse_tokens(Tail(toks))

parse_token(w) == [word |-> w, tokens |-> parse_tokens(Parse(w))]

\* ------------------------------------------------------------- split_char
\* One pass of the for loop over patterns inside the while loop: every
\* pattern that matches the current remainder consumes its match.
split_pass(w, res) ==
    LET k == gab_kons(w)
        w1 == IF k > 0 THEN SliceFrom(w, k) ELSE w
        r1 == IF k > 0 THEN Append(res, <<Slice(w, 0, k), "konsonan">>) ELSE res
        v == v_pattern(w1)
        w2 == IF v > 0 THEN SliceFrom(w1, v) ELSE w1
        r2 == IF v > 0 THEN Append(r1, <<Slice(w1, 0, v), "vocal">>) ELSE r1
    IN  [word |-> w2, result |-> r2]

\* The whole call: the returned list, or no return at all when a pass leaves
\* the remainder unchanged (the while loop then repeats that pass forever).
RECURSIVE split_run(_, _)
split_run(w, res) ==
    IF w = <<>> THEN [returns |-> TRUE, result |-> res]
    ELSE LET p == split_pass(w, res)
         IN  IF p.word = w THEN [returns |-> FALSE, result |-> <<>>]
             ELSE split_run(p.word, p.result)

split_char(s) == split_run(s, <<>>)

\* ============================== text specification: split_char, parse_token
NoParse == [done |-> FALSE, tokens |-> <<>>]

IdleText ==
    /\ input = <<>> /\ word = <<>> /\ result = <<>> /\ spc = "idle"
    /\ iters = 0 /\ parsed = NoParse
IdleCount ==
    /\ tokens = <<>> /\ kons_counters = <<>> /\ vocab_counters = <<>>
    /\ idx = 0 /\ cpc = "idle"
IdleShard ==
    /\ remaining = {} /\ shards = <<>> /\ shard_counts = <<>>
    /\ merged = <<>> /\ mpc = "idle"
IdleFeat ==
    /\ fit_descs = <<>> /\ lines_read = <<>> /\ applied = <<>> /\ fpc = "idle"

ExampleInputs == { <<"t","r","a","k">>, <<"x","y","z">> }

InitText ==
    /\ input \in Strs(TextAlphabet, MaxLen) \cup ExampleInputs
    /\ word = input /\ result = <<>> /\ spc = "while" /\ iters = 0
    /\ parsed = NoParse
    /\ IdleCount /\ IdleShard /\ IdleFeat

\* one iteration of `while word != ''` (lines 222-229)
SplitIter ==
    /\ spc = "while" /\ word # <<>>
    /\ LET p == split_pass(word, result)
       IN  /\ p.word = word => iters < Len(input) + MaxSpin
           /\ word' = p.word /\ result' = p.result
    /\ iters' = iters + 1
    /\ UNCHANGED <<input, spc, parsed>>
    /\ UNCHANGED <<countVars, shardVars, featVars>>

\* the loop test fails and the list is returned (line 230)
SplitReturn ==
    /\ spc = "while" /\ word = <<>>
    /\ spc' = "returned"
    /\ UNCHANGED <<input, word, result, iters, parsed>>
    /\ UNCHANGED <<countVars, shardVars, featVars>>

\* parse_token(input) with the parser returning [input]
ParseToken ==
    /\ spc # "idle" /\ ~parsed.done
    /\ parsed' = [done |-> TRUE, tokens |-> parse_token(input).tokens]
    /\ UNCHANGED <<input, word, result, spc, iters>>
    /\ UNCHANGED <<countVars, shardVars, featVars>>

NextText == SplitIter \/ SplitReturn \/ ParseToken
SpecText == InitText /\ [][NextText]_vars

\* ======================================== count specification: count_syllables
MaxCorpus == 3
MaxShardCorpus == 2
NumShards == 2

\* words offered to the tokenizer
CorpusWords ==
    { <<"b","a">>, <<"b","a","n">>, <<"a","n","a">>, <<"n","g","a">>,
      <<"b","a","i">>, <<"b","-","a">>, <<"n","n">>, <<"a","-">> }

KonsInit == [c \in Range(cons) |-> [onset |-> 0, coda |-> 0]]
VocabInit == [c \in Range(vocabs) |-> 0]

\* kons_counters[char][pos] += 1
hit_onset_always(kc, char, pos) ==
    [kc EXCEPT ![char]["onset"] = kc[char]["onset"] + 1]

hit(kc, char, pos) == [kc EXCEPT ![char][pos] = kc[char][pos] + 1]

\* `for (char, _) in units: kons_counters[char][pos] += 1`; a char that is
\* not a key raises KeyError after the increments of the units before it.
RECURSIVE hit_units(_, _, _)
hit_units(kc, units, pos) ==
    IF units = <<>> THEN [kons |-> kc, raised |-> FALSE]
    ELSE LET char == Head(units)[1]
         IN  IF char \notin DOMAIN kc THEN [kons |-> kc, raised |-> TRUE]
             ELSE hit_units(hit(kc, char, pos), Tail(units), pos)

\* the body of the try statement for one token, and its except clause;
\* raised tells that the except clause ran
count_token(kc, vc, token) ==
    LET so == split_char(token.onset)
        o == hit_units(kc, so.result, "onset")
        sc == split_char(token.coda)
        c == hit_units(o.kons, sc.result, "coda")
        out(ret, exc, k, v) ==
            [returns |-> ret, raised |-> exc, kons |-> k, vocab |-> v]
    IN  IF ~so.returns THEN out(FALSE, FALSE, kc, vc)
        ELSE IF o.raised THEN out(TRUE, TRUE, o.kons, vc)
        ELSE IF ~sc.returns THEN out(FALSE, FALSE, o.kons, vc)
        ELSE IF c.raised THEN out(TRUE, TRUE, c.kons, vc)
        ELSE IF token.nucleus \notin DOMAIN vc THEN out(TRUE, TRUE, c.kons, vc)
        ELSE out(TRUE, FALSE, c.kons,
                 [vc EXCEPT ![token.nucleus] = vc[token.nucleus] + 1])

\* `for token in data['tokens']`: the except clause continues with the
\* next token
RECURSIVE count_data(_, _, _)
count_data(kc, vc, toks) ==
    IF toks = <<>> THEN [returns |-> TRUE, kons |-> kc, vocab |-> vc]
    ELSE LET r == count_token(kc, vc, Head(toks))
         IN  IF ~r.returns THEN [returns |-> FALSE, kons |-> r.kons, vocab |-> r.vocab]
             ELSE count_data(r.kons, r.vocab, Tail(toks))

\* the try statement around the two loops instead of inside them: the first
\* exception ends the pass
RECURSIVE count_data_abort(_, _, _)
count_data_abort(kc, vc, toks) ==
    IF toks = <<>> THEN [returns |-> TRUE, raised |-> FALSE, kons |-> kc, vocab |-> vc]
    ELSE LET r == count_token(kc, vc, Head(toks))
         IN  IF ~r.returns \/ r.raised THEN r
             ELSE count_data_abort(r.kons, r.vocab, Tail(toks))

RECURSIVE count_loop_try_outside(_, _, _)
count_loop_try_outside(kc, vc, datas) ==
    IF datas = <<>> THEN [returns |-> TRUE, kons |-> kc, vocab |-> vc]
    ELSE LET r == count_data_abort(kc, vc, Head(datas).tokens)
         IN  IF ~r.returns \/ r.raised
             THEN [returns |-> r.returns, kons |-> r.kons, vocab |-> r.vocab]
             ELSE count_loop_try_outside(r.kons, r.vocab, Tail(datas))

\* `for data in tokens`
RECURSIVE count_loop(_, _, _)
count_loop(kc, vc, datas) ==
    IF datas = <<>> THEN [returns |-> TRUE, kons |-> kc, vocab |-> vc]
    ELSE LET r == count_data(kc, vc, Head(datas).tokens)
         IN  IF ~r.returns THEN r
             ELSE count_loop(r.kons, r.vocab, Tail(datas))

count_syllables(datas) == count_loop(KonsInit, VocabInit, datas)

InitCount ==
    /\ tokens = <<>> /\ kons_counters = <<>> /\ vocab_counters = <<>>
    /\ idx = 0 /\ cpc = "tokenize"
    /\ IdleText /\ IdleShard /\ IdleFeat

\* tokenize: one word of the word list is parsed and appended (lines 238-240)
Tokenize(w) ==
    /\ cpc = "tokenize" /\ Len(tokens) < MaxCorpus
    /\ tokens' = Append(tokens, parse_token(w))
    /\ UNCHANGED <<kons_counters, vocab_counters, idx, cpc>>
    /\ UNCHANGED <<textVars, shardVars, featVars>>

\* count_syllables is entered: the two maps are initialised (lines 250-255)
CountEnter ==
    /\ cpc = "tokenize"
    /\ kons_counters' = KonsInit /\ vocab_counters' = VocabInit
    /\ idx' = 1 /\ cpc' = "count"
    /\ UNCHANGED tokens
    /\ UNCHANGED <<textVars, shardVars, featVars>>

\* one iteration of `for data in tokens` (lines 258-268); a splitter that
\* does not return leaves the pass inside that iteration for ever
CountWord ==
    /\ cpc = "count" /\ idx <= Len(tokens)
    /\ LET r == count_data(kons_counters, vocab_counters, tokens[idx].tokens)
       IN  /\ kons_counters' = r.kons /\ vocab_counters' = r.vocab
           /\ IF r.returns THEN idx' = idx + 1 /\ cpc' = cpc
                           ELSE idx' = idx /\ cpc' = "hung"
    /\ UNCHANGED tokens
    /\ UNCHANGED <<textVars, shardVars, featVars>>

\* the loop is over and the counters are returned (line 270)
CountReturn ==
    /\ cpc = "count" /\ idx > Len(tokens)
    /\ cpc' = "returned"
    /\ UNCHANGED <<tokens, kons_counters, vocab_counters, idx>>
    /\ UNCHANGED <<textVars, shardVars, featVars>>

NextCount ==
    \/ \E w \in CorpusWords : Tokenize(w)
    \/ CountEnter
    \/ CountWord
    \/ CountReturn
SpecCount == InitCount /\ [][NextCount]_vars

\* ========================= shard specification: shards counted separately
ShardCorpora ==
    { [i \in DOMAIN ws |-> parse_token(ws[i])] :
        ws \in Strs(CorpusWords, MaxShardCorpus) }

InitShard ==
    /\ tokens \in ShardCorpora
    /\ kons_counters = <<>> /\ vocab_counters = <<>> /\ idx = 0 /\ cpc = "idle"
    /\ remaining = DOMAIN tokens
    /\ shards = [k \in 1..NumShards |-> <<>>]
    /\ shard_counts = <<>> /\ merged = <<>> /\ mpc = "dispatch"
    /\ IdleText /\ IdleFeat

\* any word not yet handed out goes to the end of any shard's list
Dispatch(i, k) ==
    /\ mpc = "dispatch" /\ i \in remaining
    /\ remaining' = remaining \ {i}
    /\ shards' = [shards EXCEPT ![k] = Append(shards[k], tokens[i])]
    /\ UNCHANGED <<shard_counts, merged, mpc>>
    /\ UNCHANGED <<textVars, countVars, featVars>>

\* count_syllables runs on every shard
CountShards ==
    /\ mpc = "dispatch" /\ remaining = {}
    /\ shard_counts' = [k \in 1..NumShards |-> count_syllables(shards[k])]
    /\ mpc' = IF \A k \in 1..NumShards : shard_counts'[k].returns
              THEN "counted" ELSE "hung"
    /\ UNCHANGED <<remaining, shards, merged>>
    /\ UNCHANGED <<textVars, countVars, featVars>>

RECURSIVE SumOver(_, _)
SumOver(f, n) == IF n = 0 THEN 0 ELSE f[n] + SumOver(f, n - 1)

\* the per-letter counters of the shards are added
merge_counts(counts) ==
    [kons |-> [c \in Range(cons) |->
                 [onset |-> SumOver([k \in 1..Len(counts) |-> counts[k].kons[c].onset], Len(counts)),
                  coda |-> SumOver([k \in 1..Len(counts) |-> counts[k].kons[c].coda], Len(counts))]],
     vocab |-> [v \in Range(vocabs) |->
                 SumOver([k \in 1..Len(counts) |-> counts[k].vocab[v]], Len(counts))]]

Merge ==
    /\ mpc = "counted"
    /\ merged' = merge_counts(shard_counts)
    /\ mpc' = "merged"
    /\ UNCHANGED <<remaining, shards, shard_counts>>
    /\ UNCHANGED <<textVars, countVars, featVars>>

NextShard ==
    \/ \E i \in 1..MaxShardCorpus, k \in 1..NumShards : Dispatch(i, k)
    \/ CountShards
    \/ Merge
SpecShard == InitShard /\ [][NextShard]_vars

\* ================================= feature specification: load_fitures_spec
MaxLines == 2
MaxApply == 2

\* the feature names handed to load_fitures_spec
Fiturs == <<"high", "low">>
\* the letters and the flags that occur in the lines of the file
LineLetters == { <<"b">>, <<"a">>, <<"n","g">> }
Flags == {"+", "-", "0"}
\* line.strip().split(' '): the letter followed by its flags
Lines == { <<l>> \o f : l \in LineLetters, f \in Strs(Flags, Len(Fiturs) + 1) }
\* the word lists whose counts are applied to the features
FeatCorpora ==
    { <<>>, << <<"b","a">>, <<"b","a","n">> >>, << <<"n","g","a">>, <<"b","a","i">> >> }

FDPoint(l) == [letter |-> l, nucleus |-> 0, coda |-> 0, onset |-> 0]

PointLetters(points) == {points[i].letter : i \in DOMAIN points}

\* FDType.add_letter
add_letter(points, char) ==
    IF char \notin PointLetters(points) THEN Append(points, FDPoint(char))
    ELSE points

\* the if/elif on one flag of a line, with the second test on the wrong flag
load_flag_both(fd, fitur_flag, char) ==
    LET p == IF fitur_flag = "+"
             THEN [fd EXCEPT !.plus.points = add_letter(fd.plus.points, char)]
             ELSE fd
    IN  IF fitur_flag # "0"
        THEN [p EXCEPT !.minus.points = add_letter(p.minus.points, char)]
        ELSE p

\* the if/elif on one flag of a line (lines 288-291)
load_flag(fd, fitur_flag, char) ==
    IF fitur_flag = "+"
    THEN [fd EXCEPT !.plus.points = add_letter(fd.plus.points, char)]
    ELSE IF fitur_flag = "-"
    THEN [fd EXCEPT !.minus.points = add_letter(fd.minus.points, char)]
    ELSE fd

Min(a, b) == IF a < b THEN a ELSE b

\* the body of `for line in lines`: zip pairs flags and features up to the
\* shorter of the two
load_line(fds, line) ==
    LET char == Head(line)
        fitur_flags == Tail(line)
    IN  [i \in DOMAIN fds |->
           IF i <= Min(Len(fitur_flags), Len(fds))
           THEN load_flag(fds[i], fitur_flags[i], char)
           ELSE fds[i]]

\* the list comprehension that builds the empty descriptions
new_fit_descs(fiturs) ==
    [i \in DOMAIN fiturs |->
       [name |-> fiturs[i],
        plus |-> [ftype |-> "plus", points |-> <<>>],
        minus |-> [ftype |-> "minus", points |-> <<>>]]]

\* a count map as count_in_map sees it: the type of its values and the dict
CountMap(which) ==
    IF which = "kons" THEN [shape |-> "dict", m |-> kons_counters]
    ELSE [shape |-> "int", m |-> vocab_counters]

\* FDPoint.count_in_map, adding to the point's counts
point_count_in_map_add(pt, map) ==
    IF pt.letter \notin DOMAIN map.m THEN [point |-> pt, raised |-> FALSE]
    ELSE LET val == map.m[pt.letter]
         IN  IF is_vocal(pt.letter)
             THEN IF map.shape # "int" THEN [point |-> pt, raised |-> TRUE]
                  ELSE [point |-> [pt EXCEPT !.nucleus = pt.nucleus + val],
                        raised |-> FALSE]
             ELSE IF map.shape # "dict" THEN [point |-> pt, raised |-> TRUE]
                  ELSE [point |-> [pt EXCEPT !.coda = pt.coda + val.coda,
                                             !.onset = pt.onset + val.onset],
                        raised |-> FALSE]

\* FDPoint.count_in_map
point_count_in_map(pt, map) ==
    IF pt.letter \notin DOMAIN map.m THEN [point |-> pt, raised |-> FALSE]
    ELSE LET val == map.m[pt.letter]
         IN  IF is_vocal(pt.letter)
             THEN IF map.shape # "int" THEN [point |-> pt, raised |-> TRUE]
                  ELSE [point |-> [pt EXCEPT !.nucleus = val], raised |-> FALSE]
             ELSE IF map.shape # "dict" THEN [point |-> pt, raised |-> TRUE]
                  ELSE IF "coda" \notin DOMAIN val THEN [point |-> pt, raised |-> TRUE]
                  ELSE IF "onset" \notin DOMAIN val THEN [point |-> pt, raised |-> TRUE]
                  ELSE [point |-> [pt EXCEPT !.coda = val.coda, !.onset = val.onset],
                        raised |-> FALSE]

\* FDType.count_in_map: the points in insertion order, up to the first raise
RECURSIVE type_count_in_map(_, _)
type_count_in_map(points, map) ==
    IF points = <<>> THEN [points |-> <<>>, raised |-> FALSE]
    ELSE LET h == point_count_in_map(Head(points), map)
         IN  IF h.raised THEN [points |-> points, raised |-> TRUE]
             ELSE LET t == type_count_in_map(Tail(points), map)
                  IN  [points |-> <<h.point>> \o t.points, raised |-> t.raised]

\* FD.count_in_map: plus, then minus
fd_count_in_map(fd, map) ==
    LET p == type_count_in_map(fd.plus.points, map)
        m == type_count_in_map(fd.minus.points, map)
    IN  IF p.raised
        THEN [fd |-> [fd EXCEPT !.plus.points = p.points], raised |-> TRUE]
        ELSE [fd |-> [fd EXCEPT !.plus.points = p.points, !.minus.points = m.points],
              raised |-> m.raised]

\* `for fd in fiturs: fd.count_in_map(map)`
RECURSIVE apply_counts(_, _)
apply_counts(fds, map) ==
    IF fds = <<>> THEN [fds |-> <<>>, raised |-> FALSE]
    ELSE LET h == fd_count_in_map(Head(fds), map)
         IN  IF h.raised THEN [fds |-> <<h.fd>> \o Tail(fds), raised |-> TRUE]
             ELSE LET t == apply_counts(Tail(fds), map)
                  IN  [fds |-> <<h.fd>> \o t.fds, raised |-> t.raised]

\* FDPoint.asdict, FDType.asdict, FD.asdict and the tagged document
point_asdict(pt) ==
    IF is_vocal(pt.letter) THEN [letter |-> pt.letter, total |-> pt.nucleus]
    ELSE [letter |-> pt.letter, coda |-> pt.coda, onset |-> pt.onset,
          total |-> pt.coda + pt.onset]

type_asdict(t) ==
    [ftype |-> t.ftype, points |-> [i \in DOMAIN t.points |-> point_asdict(t.points[i])]]

fd_asdict(fd) ==
    [name |-> fd.name, plus |-> type_asdict(fd.plus), minus |-> type_asdict(fd.minus)]

Documents(fds, tag) ==
    [i \in DOMAIN fds |->
       [name |-> fd_asdict(fds[i]).name, plus |-> fd_asdict(fds[i]).plus,
        minus |-> fd_asdict(fds[i]).minus, tag |-> tag]]

\* __main__ up to the first load_fitures_spec: the words are tokenized and
\* counted (each value is bound once through a singleton set)
InitFeat ==
    /\ \E ws \in FeatCorpora :
       \E toks \in {[i \in DOMAIN ws |-> parse_token(ws[i])]} :
       \E r \in {count_syllables(toks)} :
              /\ tokens = toks
              /\ kons_counters = r.kons /\ vocab_counters = r.vocab
              /\ idx = Len(ws) + 1 /\ cpc = "returned"
    /\ fit_descs = new_fit_descs(Fiturs)
    /\ lines_read = <<>> /\ applied = <<>> /\ fpc = "load"
    /\ IdleText /\ IdleShard

\* one iteration of `for line in lines` (lines 284-291)
LoadLine(line) ==
    /\ fpc = "load" /\ Len(lines_read) < MaxLines
    /\ fit_descs' = load_line(fit_descs, line)
    /\ lines_read' = Append(lines_read, Head(line))
    /\ UNCHANGED <<applied, fpc>>
    /\ UNCHANGED <<textVars, countVars, shardVars>>

\* load_fitures_spec returns the descriptions (line 292)
LoadReturn ==
    /\ fpc = "load"
    /\ fpc' = "loaded"
    /\ UNCHANGED <<fit_descs, lines_read, applied>>
    /\ UNCHANGED <<textVars, countVars, shardVars>>

\* `for fd in fiturs: fd.count_in_map(map)` with one of the two count maps
ApplyCounts(which) ==
    /\ fpc = "loaded" /\ Len(applied) < MaxApply
    /\ LET r == apply_counts(fit_descs, CountMap(which))
       IN  /\ fit_descs' = r.fds
           /\ fpc' = IF r.raised THEN "raised" ELSE fpc
    /\ applied' = Append(applied, which)
    /\ UNCHANGED lines_read
    /\ UNCHANGED <<textVars, countVars, shardVars>>

NextFeat ==
    \/ \E line \in Lines : LoadLine(line)
    \/ LoadReturn
    \/ \E which \in {"kons", "vocab"} : ApplyCounts(which)
SpecFeat == InitFeat /\ [][NextFeat]_vars

\* ---------------------------------------------------- claims on SpecText
Letters == ConsSingles \cup VowelSingles
Recognized(s) == \A i \in 1..Len(s) : s[i] \in Letters

RECURSIVE Concat(_)
Concat(units) ==
    IF units = <<>> THEN <<>> ELSE Head(units)[1] \o Concat(Tail(units))

\* C1: split of an input that is one two-letter grapheme of the tables (kh,
\* ng, ny, sy, ai, au, ei, oi) returns exactly one unit, the input itself.
C1_PriorityLaw ==
    (spc = "returned" /\ input \in ConsDigraphs \cup VowelDiphthongs)
        => (Len(result) = 1 /\ result[1][1] = input)

\* C2: split always ends: every iteration of its loop on a non-empty
\* remainder either consumes part of the remainder or stops with an error.
C2_SplitEnds ==
    [][(spc = "while" /\ word # <<>> /\ iters' = iters + 1)
          => (Len(word') < Len(word) \/ spc' = "raised")]_vars

\* C5: for an input made of recognized graphemes only, split returns, its
\* substrings concatenate to the input, and each unit is tagged consonant
\* exactly when it is in the consonant table and vowel exactly when it is in
\* the vowel table.
C5_RoundTrip ==
    Recognized(input) =>
        /\ iters <= Len(input)
        /\ spc = "returned" =>
              /\ Concat(result) = input
              /\ \A i \in 1..Len(result) :
                    /\ result[i][2] = "konsonan" <=> result[i][1] \in Range(cons)
                    /\ result[i][2] = "vocal" <=> result[i][1] \in Range(vocabs)

C5_Witness ==
    /\ spc = "returned" /\ input = <<"n","g","a">>
    /\ result = << <<<<"n","g">>, "konsonan">>, <<<<"a">>, "vocal">> >>

HasVowel(s) == \E i \in 1..Len(s) : s[i] \in VowelSingles

\* C6: decompose returns none exactly when the token has no vowel letter;
\* otherwise onset + nucleus + coda is the token, the nucleus is a vowel
\* grapheme starting at the leftmost vowel letter, a diphthong when one
\* starts there, so the onset has no vowel letter.
C6_Decompose ==
    parsed.done =>
        /\ parsed.tokens = <<>> <=> ~HasVowel(input)
        /\ parsed.tokens # <<>> =>
              LET t == parsed.tokens[1]
              IN  /\ Len(parsed.tokens) = 1
                  /\ t.token = input
                  /\ t.onset \o t.nucleus \o t.coda = input
                  /\ t.nucleus \in Range(vocabs)
                  /\ ~HasVowel(t.onset)
                  /\ (Len(t.nucleus) = 1 /\ t.coda # <<>>)
                        => t.nucleus \o <<t.coda[1]>> \notin VowelDiphthongs

C6_Witness ==
    /\ parsed.done /\ input = <<"t","r","a","k">>
    /\ parsed.tokens = << [token |-> input, onset |-> <<"t","r">>,
                           nucleus |-> <<"a">>, coda |-> <<"k">>] >>

\* --------------------------------------- claims on SpecCount and SpecShard
\* the decomposed tokens of the corpus, in order
RECURSIVE AllTokens(_)
AllTokens(datas) ==
    IF datas = <<>> THEN <<>> ELSE Head(datas).tokens \o AllTokens(Tail(datas))

Units(s) == split_char(s).result

\* number of units equal to c that split finds at position pos (onset or
\* coda) of the tokens with index in I
TallyKons(toks, I, pos, c) ==
    Cardinality({ p \in UNION {{<<i, j>> : j \in 1..Len(Units(toks[i][pos]))} : i \in I} :
                    Units(toks[p[1]][pos])[p[2]][1] = c })

TallyVocab(toks, I, v) == Cardinality({ i \in I : toks[i].nucleus = v })

\* the processing of the token fails with an exception
TokenFails(t) ==
    \/ \E j \in 1..Len(Units(t.onset)) : Units(t.onset)[j][1] \notin Range(cons)
    \/ \E j \in 1..Len(Units(t.coda)) : Units(t.coda)[j][1] \notin Range(cons)
    \/ t.nucleus \notin Range(vocabs)

CountersAre(toks, I) ==
    /\ DOMAIN kons_counters = Range(cons)
    /\ DOMAIN vocab_counters = Range(vocabs)
    /\ \A c \in Range(cons) :
          /\ kons_counters[c].onset = TallyKons(toks, I, "onset", c)
          /\ kons_counters[c].coda = TallyKons(toks, I, "coda", c)
    /\ \A v \in Range(vocabs) : vocab_counters[v] = TallyVocab(toks, I, v)

\* C3: after the pass, the counters hold the increments of exactly the
\* tokens whose processing did not fail; a failed token contributes nothing.
C3_FailedTokenContributesNothing ==
    cpc = "returned" =>
        LET toks == AllTokens(tokens)
        IN  CountersAre(toks, {i \in 1..Len(toks) : ~TokenFails(toks[i])})

ConsOnly(s) == \A i \in 1..Len(s) : s[i] \in ConsSingles

\* C8: for a corpus whose onsets and codas are made of consonant graphemes
\* only, the pass returns the two maps keyed by exactly the consonant and
\* vowel tables, where each consonant's onset (coda) count is the number of
\* its units in all onsets (codas) and each vowel's count is the number of
\* tokens with that nucleus.
C8_CountingResult ==
    LET toks == AllTokens(tokens)
    IN  (/\ cpc \in {"count", "returned", "hung"}
         /\ \A i \in 1..Len(toks) : ConsOnly(toks[i].onset) /\ ConsOnly(toks[i].coda))
        => /\ cpc # "hung"
           /\ cpc = "returned" => CountersAre(toks, 1..Len(toks))

C8_Witness ==
    /\ cpc = "returned"
    /\ Len(tokens) = 2
    /\ tokens[1].word = <<"b","a">> /\ tokens[2].word = <<"b","a","n">>
    /\ vocab_counters[<<"a">>] = 2
    /\ kons_counters[<<"b">>] = [onset |-> 2, coda |-> 0]
    /\ kons_counters[<<"n">>] = [onset |-> 0, coda |-> 1]

\* C7: counting the words in any order, split over shards in any way, and
\* adding the shards' counters gives the maps of the sequential count of the
\* corpus; the sharded count returns exactly when the sequential one does.
C7_OrderIndependence ==
    LET seq == count_syllables(tokens)
    IN  /\ mpc = "merged" =>
              /\ seq.returns
              /\ merged.kons = seq.kons
              /\ merged.vocab = seq.vocab
        /\ mpc = "hung" => ~seq.returns

C7_Witness ==
    /\ mpc = "merged"
    /\ Len(tokens) = 2
    /\ tokens[1].word = <<"a","n","a">> /\ tokens[2].word = <<"b","a","n">>
    /\ shards[1] = <<tokens[2]>> /\ shards[2] = <<tokens[1]>>
    /\ merged.kons[<<"n">>].coda = 2
    /\ merged.vocab[<<"a">>] = 1

\* ------------------------------------------------------ claims on SpecFeat
AllPoints ==
    UNION { Range(fit_descs[i].plus.points) \cup Range(fit_descs[i].minus.points) :
              i \in DOMAIN fit_descs }

Last(q) == q[Len(q)]

\* C4: applying features that hold a vowel point against the consonant map,
\* or features that hold a consonant point against the vowel map, raises.
C4_TypeConsistency ==
    applied # <<>> =>
        /\ (Last(applied) = "kons" /\ \E pt \in AllPoints : is_vocal(pt.letter))
              => fpc = "raised"
        /\ (Last(applied) = "vocab" /\ \E pt \in AllPoints : ~is_vocal(pt.letter))
              => fpc = "raised"

Exclusive ==
    \A i \in DOMAIN fit_descs :
        PointLetters(fit_descs[i].plus.points)
            \cap PointLetters(fit_descs[i].minus.points) = {}

\* C9 as stated: after any sequence of lines, no letter is in both the plus
\* and the minus group of a feature.
C9_PolarityExclusive == fpc # "idle" => Exclusive

NoLetterTwice ==
    \A i, j \in DOMAIN lines_read : lines_read[i] = lines_read[j] => i = j

\* C9 amended: after any sequence of lines in which no letter has more than
\* one line, no letter is in both the plus and the minus group of a feature.
C9_ExclusiveWhenOneLinePerLetter ==
    (fpc # "idle" /\ NoLetterTwice) => Exclusive

C9_Witness ==
    /\ fpc = "loaded" /\ Len(lines_read) = 2 /\ NoLetterTwice
    /\ fit_descs[1].plus.points # <<>> /\ fit_descs[1].minus.points # <<>>
    /\ fit_descs[2].plus.points # <<>> /\ fit_descs[2].minus.points # <<>>

Tag(which) == IF which = "kons" THEN "konsonan" ELSE "vocal"

\* C10: applying the same count map a second time changes no point and no
\* output document.
C10_Idempotent ==
    [][(applied # <<>> /\ applied' = Append(applied, Last(applied)))
          => /\ fit_descs' = fit_descs
             /\ Documents(fit_descs', Tag(Last(applied)))
                  = Documents(fit_descs, Tag(Last(applied)))
             /\ fpc' = fpc]_vars

C10_Witness ==
    /\ Len(applied) = 2 /\ applied[1] = applied[2] /\ fpc = "loaded"
    /\ \E pt \in AllPoints : pt.onset > 0 \/ pt.nucleus > 0
====
